---- MODULE Spec2Model ----
\* Text-formatting functions of package to (rwxrob/to): Lines, Prefixed,
\* Dedented, Indentation, Wrapped and IndentWrapped.
\*
\* A Go string is a sequence of bytes. A byte is written as a short string:
\* "a" (a letter), "SP" (0x20), "TAB" (0x09), "LF" (0x0A), "CR" (0x0D) and the
\* bytes of the two-byte UTF-8 encodings used here, "C2" "A0" (U+00A0, the
\* no-break space) and "C3" "A9" (U+00E9, e acute), and "EF" "BF" "BD"
\* (U+FFFD, what Go decodes an invalid byte to).
\*
\* The source holds two revisions of the package. The definitions with plain
\* names model the later one (the revision whose Wrapped returns the word
\* count); HardWrapped, Dedented0 and Indentation0 model the earlier one.
EXTENDS Integers, Sequences, FiniteSets, TLC

VARIABLES op, text, width, indent, pre, out, last

vars == <<op, text, width, indent, pre, out, last>>

----------------------------------------------------------------------------
\* Bounds of the model.

MaxWrapLen == 5
MaxWidth == 4
MaxDedentLen == 6
MaxLineLen == 5
MaxIndent == 2
MaxIndentWrapLen == 4
MaxLinesLen == 5

----------------------------------------------------------------------------
\* Bytes, runes and strings.

Ascii == {"a", "SP", "TAB", "LF", "CR"}
Lead2 == {"C2", "C3"}
Cont == {"A0", "A9", "BF", "BD"}

RuneError == <<"EF", "BF", "BD">>

\* One step of a range loop over a string: the rune that starts at byte i
\* (1-based) and the number of bytes it takes. An invalid byte decodes to
\* RuneError and takes one byte.
DecodeRune(s, i) ==
    LET b == s[i] IN
    IF b \in Ascii THEN [r |-> <<b>>, size |-> 1]
    ELSE IF b \in Lead2 /\ i + 1 <= Len(s) /\ s[i + 1] \in Cont
        THEN [r |-> <<b, s[i + 1]>>, size |-> 2]
    ELSE IF b = "EF" /\ i + 2 <= Len(s) /\ s[i + 1] = "BF" /\ s[i + 2] = "BD"
        THEN [r |-> RuneError, size |-> 3]
    ELSE [r |-> RuneError, size |-> 1]

\* unicode.IsSpace on the runes of the model.
IsSpace(r) == r \in {<<"SP">>, <<"TAB">>, <<"LF">>, <<"CR">>, <<"C2", "A0">>}

\* []rune(s): the runes of a string, each written as its UTF-8 bytes.
RECURSIVE RunesFrom(_, _)
RunesFrom(s, i) ==
    IF i > Len(s) THEN <<>>
    ELSE LET d == DecodeRune(s, i) IN <<d.r>> \o RunesFrom(s, i + d.size)

Runes(s) == RunesFrom(s, 1)

\* string(runes): the bytes of a sequence of runes.
RECURSIVE Flat(_)
Flat(rs) == IF rs = <<>> THEN <<>> ELSE Head(rs) \o Flat(Tail(rs))

\* strings.Join(parts, sep).
RECURSIVE Join(_, _)
Join(parts, sep) ==
    IF parts = <<>> THEN <<>>
    ELSE IF Len(parts) = 1 THEN parts[1]
    ELSE parts[1] \o sep \o Join(Tail(parts), sep)

\* strings.Repeat(" ", n).
Spaces(n) == [i \in 1..n |-> "SP"]

----------------------------------------------------------------------------
\* Lines.

\* bufio's dropCR: one trailing carriage return is removed.
DropCR(s) == IF Len(s) > 0 /\ s[Len(s)] = "CR" THEN SubSeq(s, 1, Len(s) - 1) ELSE s

\* Lines as a split at every line feed: a text that ends in a line feed
\* gets an empty last line, and the empty text one empty line.
RECURSIVE LinesSplit(_)
LinesSplit(s) ==
    IF \E i \in 1..Len(s) : s[i] = "LF"
    THEN LET i == CHOOSE k \in 1..Len(s) :
                      s[k] = "LF" /\ \A j \in 1..(k - 1) : s[j] # "LF"
         IN <<DropCR(SubSeq(s, 1, i - 1))>> \o LinesSplit(SubSeq(s, i + 1, Len(s)))
    ELSE <<DropCR(s)>>

\* to.Lines: bufio.Scanner with the default split function ScanLines.
RECURSIVE Lines(_)
Lines(s) ==
    IF s = <<>> THEN <<>>
    ELSE IF \E i \in 1..Len(s) : s[i] = "LF"
        THEN LET i == CHOOSE k \in 1..Len(s) :
                          s[k] = "LF" /\ \A j \in 1..(k - 1) : s[j] # "LF"
             IN <<DropCR(SubSeq(s, 1, i - 1))>> \o Lines(SubSeq(s, i + 1, Len(s)))
    ELSE <<DropCR(s)>>

\* maps.Prefix(lines, pre).
Prefix(lines, p) == [i \in 1..Len(lines) |-> p \o lines[i]]

\* Prefixed that leaves empty lines without the prefix.
PrefixedSkipEmpty(s, p) ==
    Join([i \in 1..Len(Lines(s)) |->
             IF Lines(s)[i] = <<>> THEN <<>> ELSE p \o Lines(s)[i]], <<"LF">>)

\* to.Prefixed.
Prefixed(s, p) == Join(Prefix(Lines(s), p), <<"LF">>)

\* to.Indented: every line prefixed with n spaces, the lines joined with
\* line feeds; nl says whether the last line is followed by one too.
Indented(s, n, nl) ==
    IF nl THEN Flat([i \in 1..Len(Lines(s)) |-> Spaces(n) \o Lines(s)[i] \o <<"LF">>])
    ELSE Prefixed(s, Spaces(n))

----------------------------------------------------------------------------
\* Indentation and Dedented.

\* The loop of Indentation: i is the 1-based position of the next rune, n
\* the value the loop variable n holds (the 0-based index of the last rune
\* visited, 0 before the first).
RECURSIVE IndentationFrom(_, _, _)
IndentationFrom(s, i, n) ==
    IF i > Len(s) THEN n
    ELSE LET d == DecodeRune(s, i) IN
         IF ~IsSpace(d.r) THEN i - 1
         ELSE IndentationFrom(s, i + d.size, i - 1)

\* Indentation that returns the index of the last space rune instead of the
\* index of the first rune that is no space.
RECURSIVE IndentationLastFrom(_, _, _)
IndentationLastFrom(s, i, n) ==
    IF i > Len(s) THEN n
    ELSE LET d == DecodeRune(s, i) IN
         IF ~IsSpace(d.r) THEN n
         ELSE IndentationLastFrom(s, i + d.size, i - 1)

IndentationLastSpace(s) == IndentationLastFrom(s, 1, 0)

\* Indentation that returns the 1-based position of the first rune that is
\* no space instead of its 0-based index.
RECURSIVE IndentationOneBasedFrom(_, _, _)
IndentationOneBasedFrom(s, i, n) ==
    IF i > Len(s) THEN n
    ELSE LET d == DecodeRune(s, i) IN
         IF ~IsSpace(d.r) THEN i
         ELSE IndentationOneBasedFrom(s, i + d.size, i)

IndentationOneBased(s) == IndentationOneBasedFrom(s, 1, 0)

\* Indentation that counts the runes before the first rune that is no space
\* (a counter incremented per rune) instead of their bytes.
RECURSIVE IndentationRunesFrom(_, _, _)
IndentationRunesFrom(s, i, n) ==
    IF i > Len(s) THEN (IF n = 0 THEN 0 ELSE n - 1)
    ELSE LET d == DecodeRune(s, i) IN
         IF ~IsSpace(d.r) THEN n
         ELSE IndentationRunesFrom(s, i + d.size, n + 1)

IndentationRunes(s) == IndentationRunesFrom(s, 1, 0)

\* to.Indentation.
Indentation(s) == IndentationFrom(s, 1, 0)

\* The earlier revision of the loop: only ' ' counts.
RECURSIVE Indentation0From(_, _, _)
Indentation0From(s, i, n) ==
    IF i > Len(s) THEN n
    ELSE LET d == DecodeRune(s, i) IN
         IF d.r # <<"SP">> THEN i - 1
         ELSE Indentation0From(s, i + d.size, i - 1)

\* to.Indentation, earlier revision.
Indentation0(s) == Indentation0From(s, 1, 0)

\* regexp `^\s*$`: \s is [\t\n\f\r ], bytes only.
IsBlank(s) == \A i \in 1..Len(s) : s[i] \in {"SP", "TAB", "LF", "CR"}

\* The first loop of Dedented: the index (1-based) of the first line that is
\* neither empty nor blank; Len(lines) + 1 when the loop runs off the end of
\* the slice (index out of range).
RECURSIVE SkipBlank(_, _)
SkipBlank(lines, n) ==
    IF n > Len(lines) THEN n
    ELSE IF Len(lines[n]) = 0 \/ IsBlank(lines[n]) THEN SkipBlank(lines, n + 1)
    ELSE n

Panic == [panic |-> TRUE, text |-> <<>>, count |-> 0]
Ok(s, c) == [panic |-> FALSE, text |-> s, count |-> c]

\* lines[n][indent:] guarded by len(lines[n]) > indent.
Chop(line, k) == IF Len(line) > k THEN SubSeq(line, k + 1, Len(line)) ELSE line

\* to.Dedented.
Dedented(s) ==
    LET lines == Lines(s)
        starts == SkipBlank(lines, 1)
    IN IF starts > Len(lines) THEN Panic
       ELSE LET k == Indentation(lines[starts])
                kept == [i \in 1..(Len(lines) - starts + 1) |->
                            Chop(lines[starts + i - 1], k)]
            IN Ok(Join(kept, <<"LF">>), 0)

\* to.Dedented, earlier revision: lines[n][indent:] without a guard, which
\* is a slice-bounds panic on a line shorter than indent.
Dedented0(s) ==
    LET lines == Lines(s)
        starts == SkipBlank(lines, 1)
    IN IF starts > Len(lines) THEN Panic
       ELSE LET k == Indentation0(lines[starts])
                rest == SubSeq(lines, starts, Len(lines))
            IN IF \E i \in 1..Len(rest) : Len(rest[i]) < k THEN Panic
               ELSE Ok(Join([i \in 1..Len(rest) |->
                                SubSeq(rest[i], k + 1, Len(rest[i]))], <<"LF">>), 0)

----------------------------------------------------------------------------
\* Wrapped.

\* qstack.Fields / strings.Fields: the maximal runs of non-space runes.
\* cur is the field being read, acc the fields read so far.
RECURSIVE FieldsFrom(_, _, _, _)
FieldsFrom(s, i, cur, acc) ==
    IF i > Len(s) THEN (IF cur = <<>> THEN acc ELSE Append(acc, cur))
    ELSE LET d == DecodeRune(s, i) IN
         IF IsSpace(d.r)
         THEN FieldsFrom(s, i + d.size, <<>>,
                         IF cur = <<>> THEN acc ELSE Append(acc, cur))
         ELSE FieldsFrom(s, i + d.size, cur \o SubSeq(s, i, i + d.size - 1), acc)

Fields(s) == FieldsFrom(s, 1, <<>>, <<>>)

\* LineFull without the separator counted: the line is held full one
\* column late.
LineFullNoSep(curwidth, cur, w) == curwidth - 1 + Len(cur) > w

\* if curwidth+len(cur) > width: the current line is full.
LineFull(curwidth, cur, w) == curwidth + Len(cur) > w

\* The loop of Wrapped over words[k..]: curwidth, wrapped and line are the
\* local variables of the same names.
RECURSIVE WrapLoop(_, _, _, _, _, _)
WrapLoop(words, k, w, curwidth, wrapped, line) ==
    IF k > Len(words) THEN wrapped \o Join(line, <<"SP">>)
    ELSE LET cur == words[k] IN
         IF Len(line) = 0
         THEN WrapLoop(words, k + 1, w, curwidth + Len(cur) + 1, wrapped, <<cur>>)
         ELSE IF LineFull(curwidth, cur, w)
         THEN WrapLoop(words, k + 1, w, Len(cur) + 1,
                       wrapped \o Join(line, <<"SP">>) \o <<"LF">>, <<cur>>)
         ELSE WrapLoop(words, k + 1, w, curwidth + Len(cur) + 1, wrapped,
                       Append(line, cur))

\* The loop of Wrapped without the statement after it: the line being
\* filled when the words run out is not added to wrapped.
RECURSIVE WrapLoopNoLast(_, _, _, _, _, _)
WrapLoopNoLast(words, k, w, curwidth, wrapped, line) ==
    IF k > Len(words) THEN wrapped
    ELSE LET cur == words[k] IN
         IF Len(line) = 0
         THEN WrapLoopNoLast(words, k + 1, w, curwidth + Len(cur) + 1, wrapped, <<cur>>)
         ELSE IF LineFull(curwidth, cur, w)
         THEN WrapLoopNoLast(words, k + 1, w, Len(cur) + 1,
                             wrapped \o Join(line, <<"SP">>) \o <<"LF">>, <<cur>>)
         ELSE WrapLoopNoLast(words, k + 1, w, curwidth + Len(cur) + 1, wrapped,
                             Append(line, cur))

\* Wrapped that leaves out the last line.
WrappedNoLastLine(s, w) ==
    LET words == Fields(s) IN
    IF w < 1 THEN Ok(Join(words, <<"SP">>), Len(words))
    ELSE Ok(WrapLoopNoLast(words, 1, w, 0, <<>>, <<>>), Len(words))

\* Wrapped with the guard width < 0: width 0 runs the loop.
WrappedZeroWraps(s, w) ==
    LET words == Fields(s) IN
    IF w < 0 THEN Ok(Join(words, <<"SP">>), Len(words))
    ELSE Ok(WrapLoop(words, 1, w, 0, <<>>, <<>>), Len(words))

\* Wrapped with a scan that takes the words off the stack: none is left to
\* count after the loop.
WrappedScanConsumes(s, w) ==
    LET words == Fields(s) IN
    IF w < 1 THEN Ok(Join(words, <<"SP">>), Len(words))
    ELSE Ok(WrapLoop(words, 1, w, 0, <<>>, <<>>), 0)

\* to.Wrapped: the wrapped text and the word count.
Wrapped(s, w) ==
    LET words == Fields(s) IN
    IF w < 1 THEN Ok(Join(words, <<"SP">>), Len(words))
    ELSE Ok(WrapLoop(words, 1, w, 0, <<>>, <<>>), Len(words))

\* peekWord(buf, start): the runes from start (1-based here) up to the next
\* space.
RECURSIVE peekWord(_, _)
peekWord(buf, start) ==
    IF start > Len(buf) \/ IsSpace(buf[start]) THEN <<>>
    ELSE <<buf[start]>> \o peekWord(buf, start + 1)

\* The loop of the earlier Wrapped over the runes buf[i..].
RECURSIVE HardWrapLoop(_, _, _, _, _)
HardWrapLoop(buf, i, w, curwidth, nbuf) ==
    IF i > Len(buf) THEN nbuf
    ELSE LET r == buf[i] IN
         IF r = <<"LF">> THEN HardWrapLoop(buf, i + 1, w, 0, nbuf \o <<"LF">>)
         ELSE IF IsSpace(r) /\ w > 0 /\ curwidth + Len(peekWord(buf, i + 1)) + 1 > w
         THEN HardWrapLoop(buf, i + 1, w, 0, nbuf \o <<"LF">>)
         ELSE HardWrapLoop(buf, i + 1, w, curwidth + 1, nbuf \o r)

\* to.Wrapped, earlier revision (the function ExampleHardWrapped exercises):
\* hard breaks are kept, no word count is returned.
HardWrapped(s, w) ==
    IF w = 0 THEN Ok(s, 0)
    ELSE Ok(HardWrapLoop(Runes(s), 1, w, 0, <<>>), 0)

\* IndentWrapped that wraps at width, the indent not taken off.
IndentWrappedFullWidth(s, ind, w) ==
    LET body == Wrapped(s, w).text
        ls == Lines(body)
    IN Flat([i \in 1..Len(ls) |-> Spaces(ind) \o ls[i] \o <<"LF">>])

\* to.IndentWrapped, earlier revision: the earlier Wrapped, then Prefixed.
IndentWrapped0(s, ind, w) == Prefixed(HardWrapped(s, w - ind).text, Spaces(ind))

\* to.IndentWrapped: wrap at width - indent, then one Sprintln per line.
IndentWrapped(s, ind, w) ==
    LET body == Wrapped(s, w - ind).text
        ls == Lines(body)
    IN Flat([i \in 1..Len(ls) |-> Spaces(ind) \o ls[i] \o <<"LF">>])

----------------------------------------------------------------------------
\* Inputs.

\* The texts of at most n characters over the alphabet A (a set of byte
\* sequences, one per character).
RECURSIVE Texts(_, _)
Texts(A, n) ==
    IF n = 0 THEN {<<>>}
    ELSE LET T == Texts(A, n - 1) IN T \cup {c \o t : c \in A, t \in T}

WrapChars == {<<"a">>, <<"C3", "A9">>, <<"SP">>, <<"TAB">>, <<"LF">>}
DedentChars == {<<"a">>, <<"SP">>, <<"C2", "A0">>, <<"LF">>, <<"CR">>}
IndentWrapChars == {<<"a">>, <<"C3", "A9">>, <<"SP">>, <<"LF">>}
LineChars == {<<"a">>, <<"SP">>, <<"TAB">>, <<"CR">>, <<"C2", "A0">>, <<"C3", "A9">>}

Prefixes == {<<>>, <<"a">>, <<"SP", "SP">>, <<"a", "LF">>}

Widths == (0 - 1)..MaxWidth

NoOut == Ok(<<>>, 0)

----------------------------------------------------------------------------
\* The state machine. Init chooses the arguments of a call; the action of the
\* function called stores what it returns in out. A function may then be
\* applied to the text just returned: out moves to last and the new result
\* is stored in out.

InitWrap ==
    /\ op = "call"
    /\ text \in Texts(WrapChars, MaxWrapLen)
    /\ width \in Widths
    /\ indent = 0
    /\ pre = <<>>
    /\ out = NoOut
    /\ last = NoOut

InitDedent ==
    /\ op = "call"
    /\ text \in Texts(DedentChars, MaxDedentLen)
    /\ width = 0
    /\ indent = 0
    /\ pre = <<>>
    /\ out = NoOut
    /\ last = NoOut

InitIndent ==
    /\ op = "call"
    /\ text \in Texts(LineChars, MaxLineLen)
    /\ width = 0
    /\ indent \in 0..MaxIndent
    /\ pre = <<>>
    /\ out = NoOut
    /\ last = NoOut

InitIndentWrap ==
    /\ op = "call"
    /\ text \in Texts(IndentWrapChars, MaxIndentWrapLen)
    /\ width \in Widths
    /\ indent \in 0..MaxIndent
    /\ pre = <<>>
    /\ out = NoOut
    /\ last = NoOut

InitLines ==
    /\ op = "call"
    /\ text \in Texts(DedentChars, MaxLinesLen)
    /\ width = 0
    /\ indent = 0
    /\ pre \in Prefixes
    /\ out = NoOut
    /\ last = NoOut

Init == InitLines \/ InitIndentWrap \/ InitWrap \/ InitDedent \/ InitIndent

Return(name, res) ==
    /\ op = "call"
    /\ op' = name
    /\ out' = res
    /\ UNCHANGED <<text, width, indent, pre, last>>

Again(from, name, res) ==
    /\ op = from
    /\ ~out.panic
    /\ op' = name
    /\ last' = out
    /\ out' = res
    /\ UNCHANGED <<text, width, indent, pre>>

CallWrapped == Return("Wrapped", Wrapped(text, width))

CallWrappedAgain == Again("Wrapped", "WrappedAgain", Wrapped(out.text, width))

CallHardWrapped == Return("HardWrapped", HardWrapped(text, width))

CallDedented == Return("Dedented", Dedented(text))

CallDedented0 == Return("Dedented0", Dedented0(text))

CallDedentedAgain == Again("Dedented", "DedentedAgain", Dedented(out.text))

CallIndentation == Return("Indentation", Ok(<<>>, Indentation(text)))

CallIndentation0 == Return("Indentation0", Ok(<<>>, Indentation0(text)))

CallIndented ==
    \E nl \in BOOLEAN : Return("Indented", Ok(Indented(text, indent, nl), 0))

CallIndentationOfIndented ==
    Again("Indented", "IndentationOfIndented", Ok(<<>>, Indentation(out.text)))

CallIndentWrapped ==
    Return("IndentWrapped", Ok(IndentWrapped(text, indent, width), 0))

CallIndentWrapped0 ==
    Return("IndentWrapped0", Ok(IndentWrapped0(text, indent, width), 0))

NextIndentWrap == CallIndentWrapped \/ CallIndentWrapped0

CallLines == Return("Lines", Ok(Lines(text), 0))

CallPrefixed == Return("Prefixed", Ok(Prefixed(text, pre), 0))

NextLines == CallLines \/ CallPrefixed

NextWrap == CallWrapped \/ CallWrappedAgain \/ CallHardWrapped

NextDedent == CallDedented \/ CallDedented0 \/ CallDedentedAgain

NextIndent ==
    CallIndentation \/ CallIndentation0 \/ CallIndented \/ CallIndentationOfIndented

Next == NextLines \/ NextIndentWrap \/ NextWrap \/ NextDedent \/ NextIndent

Spec == Init /\ [][Next]_vars

SpecIndentWrap == InitIndentWrap /\ [][NextIndentWrap]_vars

SpecLines == InitLines /\ [][NextLines]_vars

SpecWrap == InitWrap /\ [][NextWrap]_vars

SpecDedent == InitDedent /\ [][NextDedent]_vars

SpecIndent == InitIndent /\ [][NextIndent]_vars

----------------------------------------------------------------------------
\* Notions the properties are stated in.

\* The segments of s between line feeds (one more than the line feeds).
RECURSIVE SplitLF(_)
SplitLF(s) ==
    IF \E i \in 1..Len(s) : s[i] = "LF"
    THEN LET i == CHOOSE k \in 1..Len(s) :
                      s[k] = "LF" /\ \A j \in 1..(k - 1) : s[j] # "LF"
         IN <<SubSeq(s, 1, i - 1)>> \o SplitLF(SubSeq(s, i + 1, Len(s)))
    ELSE <<s>>

\* A graphic code point: a visible glyph or a space separator; control
\* characters and malformed bytes are not.
IsGraphic(r) == r \in {<<"a">>, <<"C3", "A9">>, <<"SP">>, <<"C2", "A0">>}

\* display_width: the number of graphic code points.
DisplayWidth(s) == Cardinality({i \in 1..Len(Runes(s)) : IsGraphic(Runes(s)[i])})

\* The line is one word and nothing else.
IsOneWord(line) == Fields(line) = <<line>>

\* The words of each line of s, lines without words left out.
WordGroups(s) ==
    LET ls == SplitLF(s) IN
    SelectSeq([i \in 1..Len(ls) |-> Fields(ls[i])], LAMBDA g : g # <<>>)

\* The numbers k such that a line ends between word k and word k + 1.
RECURSIVE BreaksAfter(_, _)
BreaksAfter(groups, k) ==
    IF Len(groups) <= 1 THEN {}
    ELSE {k + Len(groups[1])} \cup BreaksAfter(Tail(groups), k + Len(groups[1]))

\* The number of whitespace-delimited tokens: the runes that are not space
\* and have no rune that is not space right before them.
TokenCount(s) ==
    LET rs == Runes(s) IN
    Cardinality({i \in 1..Len(rs) :
                    ~IsSpace(rs[i]) /\ (i = 1 \/ IsSpace(rs[i - 1]))})

\* s is words separated by single ordinary spaces: no other whitespace, no
\* space at either end, no two spaces in a row.
IsCrunched(s) ==
    LET rs == Runes(s) IN
    \A i \in 1..Len(rs) :
        IsSpace(rs[i]) =>
            /\ rs[i] = <<"SP">>
            /\ 1 < i /\ i < Len(rs)
            /\ ~IsSpace(rs[i - 1]) /\ ~IsSpace(rs[i + 1])

----------------------------------------------------------------------------
\* Properties of Wrapped.

\* C1: for width >= 1 every line of the text Wrapped returns has display
\* width at most width, except a line that is exactly one word wider than
\* width. Holds of both revisions of Wrapped.
C1_WrapWidthBound ==
    (op \in {"Wrapped", "HardWrapped"} /\ width >= 1) =>
        \A i \in 1..Len(SplitLF(out.text)) :
            LET line == SplitLF(out.text)[i] IN
            \/ DisplayWidth(line) <= width
            \/ IsOneWord(line) /\ DisplayWidth(line) > width

\* C1 witness: a wrapped text of several lines, one of them a single word
\* wider than width, whose display width differs from its byte length.
C1_Witness ==
    /\ op = "Wrapped" /\ width >= 1
    /\ Len(SplitLF(out.text)) >= 2
    /\ \E i \in 1..Len(SplitLF(out.text)) :
           /\ DisplayWidth(SplitLF(out.text)[i]) > width
           /\ DisplayWidth(SplitLF(out.text)[i]) < Len(SplitLF(out.text)[i])

\* C2: for width >= 1 every line feed of the input that stands between two
\* words is a line boundary of the text Wrapped returns.
C2_HardBreaksSurvive ==
    (op = "Wrapped" /\ width >= 1) =>
        BreaksAfter(WordGroups(text), 0) \subseteq BreaksAfter(WordGroups(out.text), 0)

\* The same statement for the earlier revision of Wrapped, which keeps it.
HardWrappedKeepsBreaks ==
    (op = "HardWrapped" /\ width >= 1) =>
        BreaksAfter(WordGroups(text), 0) \subseteq BreaksAfter(WordGroups(out.text), 0)

\* C5: for width < 1 Wrapped returns the words of the text, in order,
\* separated by single spaces on one line, and the word count.
C5_WrapDegenerate ==
    (op = "Wrapped" /\ width < 1) =>
        /\ IsCrunched(out.text)
        /\ Fields(out.text) = Fields(text)
        /\ out.count = TokenCount(text)

\* C5 witness: width < 1 and a text of several words with a line feed and
\* whitespace that is crunched away.
C5_Witness ==
    /\ op = "Wrapped" /\ width < 1
    /\ out.count >= 2
    /\ \E i \in 1..Len(text) : text[i] = "LF"
    /\ Len(out.text) + 2 <= Len(text)

\* C6: the count Wrapped returns is the number of whitespace-delimited
\* tokens of the input, the same for every width.
C6_WordCount ==
    op = "Wrapped" =>
        /\ out.count = TokenCount(text)
        /\ \A w \in Widths : Wrapped(text, w).count = out.count

\* C6 witness: width >= 1, three words on two lines.
C6_Witness ==
    /\ op = "Wrapped" /\ width >= 1
    /\ out.count = 3
    /\ Len(SplitLF(out.text)) = 2

----------------------------------------------------------------------------
\* Properties of Dedented.

Min(a, b) == IF a < b THEN a ELSE b

\* The result the dedent rule gives: the lines from the first line that is
\* not blank on, each without its first min(K, length) bytes, K the
\* indentation of that first line.
DedentRule(s) ==
    LET lines == Lines(s)
        S == SkipBlank(lines, 1) - 1
        K == Indentation(lines[S + 1])
    IN Join([i \in 1..(Len(lines) - S) |->
                SubSeq(lines[S + i], Min(K, Len(lines[S + i])) + 1, Len(lines[S + i]))],
            <<"LF">>)

\* Lines followed by a join gives r back: r does not end in a line
\* terminator and has no carriage return right before a line feed.
SplitsLossless(r) ==
    /\ r # <<>> => r[Len(r)] \notin {"LF", "CR"}
    /\ \A i \in 1..(Len(r) - 1) : ~(r[i] = "CR" /\ r[i + 1] = "LF")

\* r begins with a code point that is no whitespace.
StartsWithNonSpace(r) == r # <<>> /\ ~IsSpace(DecodeRune(r, 1).r)

\* C3: Dedented returns for every text; it never fails with an index out
\* of range.
C3_DedentedTotal == op = "Dedented" => ~out.panic

\* C4: Dedented(text) is the lines from line S on, each with its first
\* min(K, length) characters removed, joined with line feeds.
C4_DedentResult == (op = "Dedented" /\ ~out.panic) => out.text = DedentRule(text)

\* C7: Dedented applied to a text Dedented returned gives that text back.
C7_DedentIdempotent == op = "DedentedAgain" => out = last

\* C7 as amended: when the text r that Dedented returned begins with a
\* code point that is no whitespace (no leading indentation remains), does
\* not end in a line terminator and has no carriage return before a line
\* feed, Dedented returns r on r.
C7_DedentIdempotentLossless ==
    (op = "DedentedAgain" /\ StartsWithNonSpace(last.text) /\ SplitsLossless(last.text))
        => out = last

\* C7 witness: the first call skipped a blank line and met an indented
\* line, and the second call is on a text of several lines.
C7_Witness ==
    /\ op = "DedentedAgain"
    /\ Len(text) >= 3 /\ text[1] = "LF" /\ text[2] = "SP"
    /\ StartsWithNonSpace(last.text)
    /\ SplitsLossless(last.text)
    /\ Len(Lines(last.text)) >= 2
    /\ out = last

----------------------------------------------------------------------------
\* Properties of Indentation.

\* The runes of rs before the first one that is no space.
RECURSIVE LeadingSpaces(_)
LeadingSpaces(rs) ==
    IF rs = <<>> \/ ~IsSpace(rs[1]) THEN <<>>
    ELSE <<rs[1]>> \o LeadingSpaces(Tail(rs))

HasNonSpace(s) == \E i \in 1..Len(Runes(s)) : ~IsSpace(Runes(s)[i])

\* C8: Indentation returns 0 for the empty line and the full length for a
\* line of whitespace only (its length in bytes or in code points).
C8_IndentationBlank ==
    (op = "Indentation" /\ ~HasNonSpace(text)) =>
        out.count \in {Len(text), Len(Runes(text))}

\* C9: for a line with a code point that is no whitespace, Indentation is
\* the number of whitespace code points before the first such code point.
C9_IndentationCodePoints ==
    (op = "Indentation" /\ HasNonSpace(text)) =>
        out.count = Len(LeadingSpaces(Runes(text)))

\* C9 as amended: Indentation is the number of bytes of the whitespace code
\* points before the first code point that is no whitespace.
C9_IndentationBytes ==
    (op = "Indentation" /\ HasNonSpace(text)) =>
        out.count = Len(Flat(LeadingSpaces(Runes(text))))

\* C9 witness: a line that starts with a two-byte space, then more
\* whitespace, then a code point that is no whitespace.
C9_Witness ==
    /\ op = "Indentation" /\ HasNonSpace(text)
    /\ Len(text) >= 2 /\ text[1] = "C2" /\ text[2] = "A0"
    /\ Len(LeadingSpaces(Runes(text))) >= 2
    /\ out.count > Len(LeadingSpaces(Runes(text)))

\* C10: Indentation of a single line indented by n spaces is n plus the
\* Indentation of the line.
C10_IndentRoundTrip ==
    op = "IndentationOfIndented" => out.count = indent + Indentation(text)

\* C10 as amended: the same for every line with a code point that is no
\* whitespace. The empty line indented is empty, with Indentation 0.
C10_IndentRoundTripNonBlank ==
    op = "IndentationOfIndented" =>
        /\ HasNonSpace(text) => out.count = indent + Indentation(text)
        /\ text = <<>> => out.count = 0

\* C10 witness: a line with a two-byte space before its first code point
\* that is no whitespace, indented by n >= 1 and followed by a line feed.
C10_Witness ==
    /\ op = "IndentationOfIndented"
    /\ indent >= 1
    /\ HasNonSpace(text)
    /\ Len(text) >= 2 /\ text[1] = "C2" /\ text[2] = "A0"
    /\ last.text # <<>> /\ last.text[Len(last.text)] = "LF"
    /\ out.count = indent + Indentation(text)

----------------------------------------------------------------------------
\* Properties of IndentWrapped.

\* The lines of s, each ended by a line feed or by the end of s.
TextLines(s) ==
    LET segs == SplitLF(s) IN
    IF segs[Len(segs)] = <<>> THEN SubSeq(segs, 1, Len(segs) - 1) ELSE segs

\* Every line of the text returned is indent spaces followed by the line
\* of Wrapped(text, width - indent) at the same place.
IndentsWrappedLines ==
    LET body == TextLines(Wrapped(text, width - indent).text)
        got == TextLines(out.text)
    IN /\ Len(got) = Len(body)
       /\ \A i \in 1..Len(got) : got[i] = Spaces(indent) \o body[i]

\* C11: every line of IndentWrapped(text, indent, width) is indent spaces
\* followed by a line of Wrapped(text, width - indent), and its display
\* width is at most width.
C11_IndentWrappedBound ==
    op = "IndentWrapped" =>
        /\ IndentsWrappedLines
        /\ \A i \in 1..Len(TextLines(out.text)) :
               DisplayWidth(TextLines(out.text)[i]) <= width

\* C11 as amended: the lines are as stated; for width - indent >= 1 the
\* display width of a line is at most width unless the line holds exactly
\* one word, wider than width - indent.
C11_IndentWrappedBoundButLongWords ==
    op = "IndentWrapped" =>
        /\ IndentsWrappedLines
        /\ width - indent >= 1 =>
               \A i \in 1..Len(TextLines(out.text)) :
                   LET line == TextLines(out.text)[i]
                       word == SubSeq(line, indent + 1, Len(line))
                   IN \/ DisplayWidth(line) <= width
                      \/ IsOneWord(word) /\ DisplayWidth(word) > width - indent

\* C11 witness: indent >= 1 and a wrapping width of at least 1, two lines,
\* one within the width and one of a single word that goes past it.
C11_Witness ==
    /\ op = "IndentWrapped" /\ indent >= 1 /\ width - indent >= 1
    /\ Len(TextLines(out.text)) = 2
    /\ \E i \in 1..2 : DisplayWidth(TextLines(out.text)[i]) > width
    /\ \E i \in 1..2 : DisplayWidth(TextLines(out.text)[i]) <= width

----------------------------------------------------------------------------
\* Properties of Lines and Prefixed.

\* seg without one carriage return at its end.
WithoutOneCR(seg) ==
    IF seg # <<>> /\ seg[Len(seg)] = "CR" THEN SubSeq(seg, 1, Len(seg) - 1) ELSE seg

\* The segments of s between line feeds, the empty segment after a last
\* line feed (and the one segment of the empty text) left out, each
\* without one carriage return at its end.
LinesRule(s) == [i \in 1..Len(TextLines(s)) |-> WithoutOneCR(TextLines(s)[i])]

CountLF(s) == Cardinality({i \in 1..Len(s) : s[i] = "LF"})

RECURSIVE PrefixRule(_, _)
PrefixRule(lines, p) ==
    IF lines = <<>> THEN <<>>
    ELSE p \o lines[1] \o
         (IF Len(lines) = 1 THEN <<>> ELSE <<"LF">> \o PrefixRule(Tail(lines), p))

----------------------------------------------------------------------------
\* Greedy packing and idempotence of Wrapped.

\* The width of s: its display width, or its length in bytes.
Measure(s, bytes) == IF bytes THEN Len(s) ELSE DisplayWidth(s)

\* Greedy packing of words[k..]: line is the line being filled, done the
\* lines already full. A word goes to a new line if and only if the line
\* being filled, one space and the word are wider than w.
RECURSIVE GreedyFrom(_, _, _, _, _, _)
GreedyFrom(words, k, w, line, done, bytes) ==
    IF k > Len(words) THEN Append(done, line)
    ELSE IF Measure(line, bytes) + 1 + Measure(words[k], bytes) > w
    THEN GreedyFrom(words, k + 1, w, words[k], Append(done, line), bytes)
    ELSE GreedyFrom(words, k + 1, w, line \o <<"SP">> \o words[k], done, bytes)

\* The lines greedy packing puts the words on.
GreedyLines(words, w, bytes) ==
    IF words = <<>> THEN <<>> ELSE GreedyFrom(words, 2, w, words[1], <<>>, bytes)

\* C14: for width >= 1 the text Wrapped returns is the greedy packing of
\* the words of the input by display width, the lines joined with line
\* feeds, no word lost, added or split.
C14_GreedyPacking ==
    (op = "Wrapped" /\ width >= 1) =>
        /\ Fields(out.text) = Fields(text)
        /\ SplitLF(out.text) =
               (IF Fields(text) = <<>> THEN <<<<>>>>
                ELSE GreedyLines(Fields(text), width, FALSE))

\* The same statement with the length in bytes as the width, which is what
\* Wrapped measures.
WrappedIsGreedyByBytes ==
    (op = "Wrapped" /\ width >= 1) =>
        /\ Fields(out.text) = Fields(text)
        /\ SplitLF(out.text) =
               (IF Fields(text) = <<>> THEN <<<<>>>>
                ELSE GreedyLines(Fields(text), width, TRUE))

\* C15: for width >= 1, Wrapped at the same width of the text Wrapped
\* returned gives the same text and the same word count.
C15_WrapIdempotent == (op = "WrappedAgain" /\ width >= 1) => out = last

\* C15 witness: the first call returned three words on two lines, a text
\* other than its input, and the second call returned the same again.
C15_Witness ==
    /\ op = "WrappedAgain" /\ width >= 1
    /\ last.count = 3
    /\ Len(SplitLF(last.text)) = 2
    /\ last.text # text
    /\ out = last

====
